---- MODULE Spec2Model ----
(***************************************************************************)
(* Model of plugins/modules/portainer.py: the Ansible module `portainer`.  *)
(* One run of main() is a sequence of steps, one per remote call; the      *)
(* remote control plane (admin, endpoints, stacks) persists across runs.   *)
(***************************************************************************)
EXTENDS Integers, Sequences, FiniteSets, TLC

\* ---------------------------------------------------------------- bounds
MaxStacks == 2      \* longest desired stack list
MaxRuns == 2        \* consecutive runs of main() against the same remote

\* ------------------------------------------------------- names and text
\* A name is a tuple of characters; str.lower() maps it character by
\* character and leaves digits alone.
LowerChar(c) == CASE c = "S" -> "s" [] c = "E" -> "e" [] OTHER -> c

Lower(s) == [i \in DOMAIN s |-> LowerChar(s[i])]

\* stack names the remote can hold
StackNames == { <<"S", "1">>, <<"s", "1">>, <<"s", "2">> }

\* stack names of the playbook: one with an upper-case letter, one without
DesiredNames == { <<"S", "1">>, <<"s", "2">> }

EndpointNames == { <<"E">>, <<"e">> }

Digits == <<"0", "1", "2", "3", "4", "5", "6", "7", "8", "9">>

RECURSIVE Str(_)
\* f"{n}" for a non-negative integer
Str(n) == IF n < 10 THEN <<Digits[n + 1]>>
          ELSE Str(n \div 10) \o <<Digits[(n % 10) + 1]>>

RECURSIVE Count(_, _)
\* list.count(v)
Count(l, v) == IF l = <<>> THEN 0
               ELSE (IF l[1] = v THEN 1 ELSE 0) + Count(Tail(l), v)

\* x in list
In(x, l) == \E k \in DOMAIN l : l[k] = x

RECURSIVE SetToSeq(_)
SetToSeq(S) == IF S = {} THEN <<>>
               ELSE LET x == CHOOSE y \in S : TRUE
                    IN  <<x>> \o SetToSeq(S \ {x})

\* ------------------------------------------------------------ responses
\* status 0 stands for a transport error (no response at all)
TransportError == 0

\* response.raise_for_status(): 4xx and 5xx raise HTTPError
RaiseForStatus(status) == status >= 400

\* the request raises RequestException: no response, or raise_for_status
Raises(status) == status = TransportError \/ RaiseForStatus(status)

VARIABLES
    \* module.params and module.check_mode
    initial_setup, endpoint_param, stacks_param, check_mode,
    \* the remote control plane
    folds,          \* the remote stores names lower-cased
    adminInit,      \* admin user initialised
    endpoints,      \* list of [Id, Name]
    remoteStacks,   \* number of stacks of each name
    \* locals of main()
    pc, admin_exists, session_token, endpoint_id, existing_stacks,
    created_stacks, idx,
    \* what the run handed to fail_json / exit_json
    result,
    \* observation: method calls of this run, warnings of this run, number of
    \* the run, what the preceding run reported (without its message)
    calls, warnings, run, previous,
    \* observation over all runs: number of create_endpoint calls that
    \* succeeded, and whether an earlier run was aborted inside the bootstrap
    \* branch after its create_admin had succeeded
    endpointsCreated, halfSetup

params == <<initial_setup, endpoint_param, stacks_param, check_mode>>
remote == <<folds, adminInit, endpoints, remoteStacks>>
locals == <<admin_exists, session_token, endpoint_id, existing_stacks,
            created_stacks, idx>>
observed == <<endpointsCreated, halfSetup>>
vars == <<params, remote, locals, pc, result, calls, warnings, run, previous,
          observed>>

\* the name under which the remote stores a submitted name
Stored(name) == IF folds THEN Lower(name) ELSE name

NoResult == [kind |-> "none", changed |-> "absent", msg |-> <<>>,
             stacks_deployed |-> <<>>, stacks_failed_to_deploy |-> <<>>]

\* one call of a PortainerAPI method: the bearer token it carries (0: none),
\* the name it submits, the status of the response and the jwt of its body
Call(op, token, name, status, jwt) ==
    [op |-> op, token |-> token, name |-> name, status |-> status, jwt |-> jwt]

\* create_stack raised before any request was sent
NoRequest == -1

Entry(n) == [name |-> n, compose_file |-> "docker-compose.yml"]

StackLists == UNION { [1..n -> {Entry(m) : m \in DesiredNames}] : n \in 0..MaxStacks }

Init ==
    /\ initial_setup \in BOOLEAN
    /\ endpoint_param \in EndpointNames
    /\ stacks_param \in StackLists
    /\ check_mode \in BOOLEAN
    /\ folds \in BOOLEAN
    /\ adminInit \in BOOLEAN
    /\ \E E \in SUBSET EndpointNames :
          /\ folds => \A n \in E : Lower(n) = n
          /\ endpoints = [k \in 1..Cardinality(E) |->
                            [Id |-> k, Name |-> SetToSeq(E)[k]]]
    /\ \E R \in SUBSET StackNames :
          /\ folds => \A n \in R : Lower(n) = n
          /\ remoteStacks = [n \in StackNames |-> IF n \in R THEN 1 ELSE 0]
    \* every call that creates an endpoint or a stack needs the token of an
    \* admin session: a remote without admin has neither
    /\ ~adminInit => (endpoints = <<>> /\ \A n \in StackNames : remoteStacks[n] = 0)
    /\ pc = "start"
    /\ admin_exists = FALSE
    /\ session_token = 0
    /\ endpoint_id = 0
    /\ existing_stacks = <<>>
    /\ created_stacks = <<>>
    /\ idx = 1
    /\ result = NoResult
    /\ calls = <<>>
    /\ warnings = <<>>
    /\ run = 1
    /\ previous = NoResult
    /\ endpointsCreated = 0
    /\ halfSetup = FALSE

\* variant: the except clause swallows the exception and reports nothing
FailJson_Pass(op) ==
    /\ result' = result
    /\ pc' = "done"

\* module.fail_json(changed=False, msg=f"{e}") of the except clause
FailJson(op) ==
    /\ result' = [NoResult EXCEPT !.kind = "fail_json", !.changed = "False",
                                  !.msg = <<"ERROR", op>>]
    /\ pc' = "done"

\* variant: the admin check is ignored
EnterBootstrap_IgnoreAdmin(setup, exists) == setup

\* variant: initial_setup is ignored
EnterBootstrap_IgnoreSetup(setup, exists) == ~exists

\* if initial_setup_param and not admin_exists
EnterBootstrap(setup, exists) == setup /\ ~exists

\* main(): reading the parameters, `if not stacks_param: fail_json(...)`
CheckParams ==
    /\ pc = "start"
    /\ IF stacks_param = <<>>
       THEN /\ result' = [NoResult EXCEPT !.kind = "fail_json",
                                          !.msg = <<"No stacks provided">>]
            /\ pc' = "done"
       ELSE /\ pc' = "ping"
            /\ UNCHANGED result
    /\ UNCHANGED <<params, remote, locals, calls, warnings, run, previous, observed>>

\* variant: ping() logs and warns but does not re-raise
Ping_NoRaise ==
    /\ pc = "ping"
    /\ \E status \in {TransportError, 200, 500} :
          /\ calls' = Append(calls, Call("ping", 0, <<>>, status, 0))
          /\ warnings' = IF Raises(status)
                         THEN Append(warnings, <<"unreachable", <<>>>>)
                         ELSE warnings
          /\ pc' = "check_admin"
          /\ UNCHANGED result
    /\ UNCHANGED <<params, remote, locals, run, previous, observed>>

\* portainer.ping()
Ping ==
    /\ pc = "ping"
    /\ \E status \in {TransportError, 200, 500} :
          /\ calls' = Append(calls, Call("ping", 0, <<>>, status, 0))
          /\ IF Raises(status)
             THEN /\ warnings' = Append(warnings, <<"unreachable", <<>>>>)
                  /\ FailJson("ping")
             ELSE /\ pc' = "check_admin"
                  /\ UNCHANGED <<warnings, result>>
    /\ UNCHANGED <<params, remote, locals, run, previous, observed>>

\* variant: check_admin_exists calls raise_for_status like the other methods
CheckAdminExists_RaiseForStatus ==
    /\ pc = "check_admin"
    /\ \E status \in {TransportError, 500, IF adminInit THEN 204 ELSE 404} :
          /\ calls' = Append(calls, Call("check_admin_exists", 0, <<>>, status, 0))
          /\ IF Raises(status)
             THEN /\ FailJson("check_admin_exists")
                  /\ UNCHANGED <<admin_exists, warnings>>
             ELSE /\ admin_exists' = (status = 204)
                  /\ warnings' = IF status = 204
                                 THEN Append(warnings, <<"initialized", <<>>>>)
                                 ELSE warnings
                  /\ pc' = IF EnterBootstrap(initial_setup, admin_exists')
                           THEN "create_admin"
                           ELSE "create_session"
                  /\ UNCHANGED result
    /\ UNCHANGED <<params, remote, session_token, endpoint_id, existing_stacks,
                   created_stacks, idx, run, previous, observed>>

\* portainer.check_admin_exists()
CheckAdminExists ==
    /\ pc = "check_admin"
    /\ \E status \in {TransportError, 500, IF adminInit THEN 204 ELSE 404} :
          /\ calls' = Append(calls, Call("check_admin_exists", 0, <<>>, status, 0))
          /\ IF status = TransportError
             THEN /\ FailJson("check_admin_exists")
                  /\ UNCHANGED <<admin_exists, warnings>>
             ELSE /\ admin_exists' = (status = 204)
                  /\ warnings' = IF status = 204
                                 THEN Append(warnings, <<"initialized", <<>>>>)
                                 ELSE warnings
                  /\ pc' = IF EnterBootstrap(initial_setup, admin_exists')
                           THEN "create_admin"
                           ELSE "create_session"
                  /\ UNCHANGED result
    /\ UNCHANGED <<params, remote, session_token, endpoint_id, existing_stacks,
                   created_stacks, idx, run, previous, observed>>

\* variant: create_admin logs the failure but does not re-raise
CreateAdmin_NoRaise ==
    /\ pc = "create_admin"
    /\ \E status \in {TransportError} \cup (IF adminInit THEN {409} ELSE {200, 500}) :
          /\ calls' = Append(calls, Call("create_admin", 0, <<>>, status, 0))
          /\ adminInit' = (adminInit \/ ~Raises(status))
          /\ pc' = "create_session_setup"
          /\ UNCHANGED result
    /\ UNCHANGED <<params, folds, endpoints, remoteStacks, locals,
                   warnings, run, previous, observed>>

\* portainer.create_admin(...), first step of the bootstrap branch
CreateAdmin ==
    /\ pc = "create_admin"
    /\ \E status \in {TransportError} \cup (IF adminInit THEN {409} ELSE {200, 500}) :
          /\ calls' = Append(calls, Call("create_admin", 0, <<>>, status, 0))
          /\ IF Raises(status)
             THEN /\ FailJson("create_admin")
                  /\ UNCHANGED adminInit
             ELSE /\ adminInit' = TRUE
                  /\ pc' = "create_session_setup"
                  /\ UNCHANGED result
    /\ UNCHANGED <<params, folds, endpoints, remoteStacks, locals,
                   warnings, run, previous, observed>>

\* response.json()['jwt']: the remote issues a token per login, none of
\* them twice; a run logs in at most once, so the run number names it
Jwt == run

\* variant: the token of the response is dropped, the caller keeps what it had
create_session_Stale(next) ==
    \E status \in {TransportError, 422} \cup (IF adminInit THEN {200} ELSE {}),
       hasJwt \in BOOLEAN :
          /\ (status # 200) => hasJwt = FALSE
          /\ LET jwt == IF hasJwt THEN Jwt ELSE 0
             IN  /\ calls' = Append(calls, Call("create_session", 0, <<>>, status, jwt))
                 /\ IF Raises(status) \/ ~hasJwt
                    THEN /\ FailJson("create_session")
                         /\ UNCHANGED session_token
                    ELSE /\ session_token' = session_token
                         /\ pc' = next
                         /\ UNCHANGED result

\* portainer.create_session(...): POST /api/auth, return response.json()['jwt']
\* A 200 whose body has no 'jwt' raises as well.
create_session(next) ==
    \E status \in {TransportError, 422} \cup (IF adminInit THEN {200} ELSE {}),
       hasJwt \in BOOLEAN :
          /\ (status # 200) => hasJwt = FALSE
          /\ LET jwt == IF hasJwt THEN Jwt ELSE 0
             IN  /\ calls' = Append(calls, Call("create_session", 0, <<>>, status, jwt))
                 /\ IF Raises(status) \/ ~hasJwt
                    THEN /\ FailJson("create_session")
                         /\ UNCHANGED session_token
                    ELSE /\ session_token' = jwt
                         /\ pc' = next
                         /\ UNCHANGED result

\* variant: the bootstrap branch forgets create_endpoint
CreateSessionSetup_NoEndpoint ==
    /\ pc = "create_session_setup"
    /\ create_session("get_endpoint_id")
    /\ UNCHANGED <<params, folds, adminInit, endpoints, remoteStacks,
                   admin_exists, endpoint_id, existing_stacks, created_stacks,
                   idx, warnings, run, previous, observed>>

\* line 387: create_session of the bootstrap branch
CreateSessionSetup ==
    /\ pc = "create_session_setup"
    /\ create_session("create_endpoint")
    /\ UNCHANGED <<params, folds, adminInit, endpoints, remoteStacks,
                   admin_exists, endpoint_id, existing_stacks, created_stacks,
                   idx, warnings, run, previous, observed>>

\* line 390: create_session of the else branch
CreateSession ==
    /\ pc = "create_session"
    /\ create_session("get_endpoint_id")
    /\ UNCHANGED <<params, folds, adminInit, endpoints, remoteStacks,
                   admin_exists, endpoint_id, existing_stacks, created_stacks,
                   idx, warnings, run, previous, observed>>

\* portainer.create_endpoint(session_token, endpoint_param)
CreateEndpoint ==
    /\ pc = "create_endpoint"
    /\ \E status \in {TransportError, 200, 500} :
          /\ calls' = Append(calls, Call("create_endpoint", session_token,
                                         endpoint_param, status, 0))
          /\ IF Raises(status)
             THEN /\ FailJson("create_endpoint")
                  /\ UNCHANGED <<endpoints, endpointsCreated>>
             ELSE /\ endpoints' = Append(endpoints,
                                    [Id |-> Len(endpoints) + 1,
                                     Name |-> Stored(endpoint_param)])
                  /\ endpointsCreated' = endpointsCreated + 1
                  /\ pc' = "get_endpoint_id"
                  /\ UNCHANGED result
    /\ UNCHANGED <<params, folds, adminInit, remoteStacks, locals,
                   warnings, run, previous, halfSetup>>

\* variant: falls back to the first listed endpoint when no name matches
FindEndpoint_First(eps, endpoint_name) ==
    IF \E k \in DOMAIN eps : eps[k].Name = endpoint_name
    THEN eps[CHOOSE k \in DOMAIN eps :
               /\ eps[k].Name = endpoint_name
               /\ \A j \in 1..(k - 1) : eps[j].Name # endpoint_name].Id
    ELSE IF eps = <<>> THEN 0 ELSE eps[1].Id

\* the for ... else of get_endpoint_id: Id of the first endpoint whose Name
\* is endpoint_name, 0 when there is none
FindEndpoint(eps, endpoint_name) ==
    IF \E k \in DOMAIN eps : eps[k].Name = endpoint_name
    THEN eps[CHOOSE k \in DOMAIN eps :
               /\ eps[k].Name = endpoint_name
               /\ \A j \in 1..(k - 1) : eps[j].Name # endpoint_name].Id
    ELSE 0

\* endpoint_id = portainer.get_endpoint_id(session_token, endpoint_param)
GetEndpointId ==
    /\ pc = "get_endpoint_id"
    /\ \E status \in {TransportError, 200, 500} :
          /\ calls' = Append(calls, Call("_get_all_endpoints", session_token,
                                         <<>>, status, 0))
          /\ IF Raises(status)
             THEN /\ FailJson("_get_all_endpoints")
                  /\ UNCHANGED endpoint_id
             ELSE IF Len(endpoints) = 0
             THEN /\ FailJson("0 endpoints found")
                  /\ UNCHANGED endpoint_id
             ELSE IF FindEndpoint(endpoints, endpoint_param) = 0
             THEN /\ FailJson("get_endpoint_id")
                  /\ UNCHANGED endpoint_id
             ELSE /\ endpoint_id' = FindEndpoint(endpoints, endpoint_param)
                  /\ pc' = "get_all_stacks"
                  /\ UNCHANGED result
    /\ UNCHANGED <<params, remote, admin_exists, session_token,
                   existing_stacks, created_stacks, idx, warnings, run, previous, observed>>

\* stacks = [stack['Name'] for stack in response.json()]
StackListing == SetToSeq({n \in StackNames : remoteStacks[n] > 0})

\* existing_stacks = portainer.get_all_stacks(session_token); created_stacks=[]
GetAllStacks ==
    /\ pc = "get_all_stacks"
    /\ \E status \in {TransportError, 200, 500} :
          /\ calls' = Append(calls, Call("get_all_stacks", session_token,
                                         <<>>, status, 0))
          /\ IF Raises(status)
             THEN /\ FailJson("get_all_stacks")
                  /\ UNCHANGED <<existing_stacks, created_stacks, idx>>
             ELSE /\ existing_stacks' = StackListing
                  /\ created_stacks' = <<>>
                  /\ idx' = 1
                  /\ pc' = "loop"
                  /\ UNCHANGED result
    /\ UNCHANGED <<params, remote, admin_exists, session_token, endpoint_id,
                   warnings, run, previous, observed>>

\* variant: the name is compared as written
AlreadyExists_Exact(stack_name, existing) == In(stack_name, existing)

\* if stack_name.lower() in existing_stacks
AlreadyExists(stack_name, existing) == In(Lower(stack_name), existing)

\* variant: the loop stops after its first iteration (break for continue)
Advance_Break ==
    /\ idx' = idx + 1
    /\ pc' = "report"

\* next position of the for loop over stacks_param
Advance ==
    /\ idx' = idx + 1
    /\ pc' = IF idx + 1 > Len(stacks_param) THEN "report" ELSE "loop"

\* loop body, the `continue` arm
SkipStack ==
    /\ pc = "loop"
    /\ AlreadyExists(stacks_param[idx].name, existing_stacks)
    /\ warnings' = Append(warnings, <<"already exists", stacks_param[idx].name>>)
    /\ Advance
    /\ UNCHANGED <<params, remote, admin_exists, session_token, endpoint_id,
                   existing_stacks, created_stacks, result, calls, run, previous, observed>>

\* created_stacks.append(stack_created)
AppendOutcome(created, stack_created) == Append(created, stack_created)

\* loop body, portainer.create_stack(...): open() is outside the try, so a
\* compose file that cannot be opened raises out of create_stack into the
\* except clause of main(); a RequestException is turned into False.
CreateStack ==
    /\ pc = "loop"
    /\ ~AlreadyExists(stacks_param[idx].name, existing_stacks)
    /\ \E opened \in BOOLEAN, status \in {NoRequest, TransportError, 200, 500} :
          /\ opened <=> status # NoRequest
          /\ calls' = Append(calls, Call("create_stack", session_token,
                                         stacks_param[idx].name, status, 0))
          /\ IF ~opened
             THEN /\ FailJson("open")
                  /\ UNCHANGED <<remoteStacks, created_stacks, idx>>
             ELSE /\ created_stacks' = AppendOutcome(created_stacks, ~Raises(status))
                  /\ remoteStacks' = IF Raises(status) THEN remoteStacks
                                     ELSE [remoteStacks EXCEPT
                                             ![Stored(stacks_param[idx].name)] = @ + 1]
                  /\ Advance
                  /\ UNCHANGED result
    /\ UNCHANGED <<params, folds, adminInit, endpoints, admin_exists,
                   session_token, endpoint_id, existing_stacks, warnings,
                   run, previous, observed>>

\* variant: changed whenever a creation was attempted
ChangedStatus_Attempted(created) == IF Len(created) > 0 THEN "True" ELSE "False"

\* variant: changed only when no creation failed
ChangedStatus_NoFailure(created) ==
    IF Len(created) > 0 /\ Count(created, FALSE) = 0 THEN "True" ELSE "False"

\* changed_status = True if created_stacks.count(True) > 0 else False
ChangedStatus(created) == IF Count(created, TRUE) > 0 THEN "True" ELSE "False"

\* module.exit_json(...)
ExitJson(created) ==
    [kind |-> "exit_json",
     changed |-> ChangedStatus(created),
     msg |-> <<Str(Len(created)), "stacks created">>,
     stacks_deployed |-> Str(Count(created, TRUE)),
     stacks_failed_to_deploy |-> Str(Count(created, FALSE))]

\* lines 411-418
Report ==
    /\ pc = "report"
    /\ result' = ExitJson(created_stacks)
    /\ pc' = "done"
    /\ UNCHANGED <<params, remote, locals, calls, warnings, run, previous, observed>>

\* the run ended with fail_json at line 387 or 388: create_admin had
\* succeeded, create_session or create_endpoint raised
AbortedInBootstrap ==
    /\ result.kind = "fail_json"
    /\ \E k \in DOMAIN calls :
          calls[k].op = "create_admin" /\ ~Raises(calls[k].status)
    /\ calls[Len(calls)].op \in {"create_session", "create_endpoint"}

\* the playbook runs the module again with the same parameters
NextRun ==
    /\ pc = "done"
    /\ run < MaxRuns
    /\ previous' = [result EXCEPT !.msg = <<>>]
    /\ run' = run + 1
    /\ pc' = "start"
    /\ admin_exists' = FALSE
    /\ session_token' = 0
    /\ endpoint_id' = 0
    /\ existing_stacks' = <<>>
    /\ created_stacks' = <<>>
    /\ idx' = 1
    /\ result' = NoResult
    /\ calls' = <<>>
    /\ warnings' = <<>>
    /\ halfSetup' = (halfSetup \/ AbortedInBootstrap)
    /\ UNCHANGED <<params, remote, endpointsCreated>>

\* one step of the run in progress
Step ==
    \/ CheckParams
    \/ Ping
    \/ CheckAdminExists
    \/ CreateAdmin
    \/ CreateSessionSetup
    \/ CreateSession
    \/ CreateEndpoint
    \/ GetEndpointId
    \/ GetAllStacks
    \/ SkipStack
    \/ CreateStack
    \/ Report

Next ==
    \/ Step
    \/ NextRun

Spec == Init /\ [][Next]_vars

\* main() is sequential and every request returns or raises, so a run that
\* can take a step takes it; nothing obliges the playbook to run again
FairSpec == Spec /\ WF_vars(Step)

TypeOK ==
    /\ pc \in {"start", "ping", "check_admin", "create_admin",
               "create_session_setup", "create_session", "create_endpoint",
               "get_endpoint_id", "get_all_stacks", "loop", "report", "done"}
    /\ run \in 1..MaxRuns
    /\ idx \in 1..(Len(stacks_param) + 1)
    /\ result.kind \in {"none", "exit_json", "fail_json"}

\* ------------------------------------------------------------ observation
\* the response says the request succeeded
Ok(c) == c.status \in 200..299

CallsOf(op) == {k \in DOMAIN calls : calls[k].op = op}

StackCalls == CallsOf("create_stack")

NumCreated == Cardinality({k \in StackCalls : Ok(calls[k])})

NumFailed == Cardinality({k \in StackCalls : ~Ok(calls[k])})

NumSkipped == Cardinality({k \in DOMAIN warnings : warnings[k][1] = "already exists"})

SameIgnoringCase(a, b) == Lower(a) = Lower(b)

\* ------------------------------------------------------------------ C1
\* C1: create_stack is never called for a desired stack whose name equals,
\* ignoring letter case, a name the remote reported in its stack listing.
C1_NeverCreatesExisting ==
    \A k \in StackCalls :
        ~ \E j \in DOMAIN existing_stacks :
              SameIgnoringCase(existing_stacks[j], calls[k].name)

\* ------------------------------------------------------------------ C2
\* C2: a run that follows a run which ended with its report and no failed
\* stack, with the same desired list, creates no stack: no create_stack call
\* succeeds and its report has stacks_deployed = 0 and changed = false.
C2_SecondRunCreatesNothing ==
    (/\ run > 1
     /\ previous.kind = "exit_json"
     /\ previous.stacks_failed_to_deploy = Str(0))
    => /\ NumCreated = 0
       /\ result.kind = "exit_json" =>
             /\ result.stacks_deployed = Str(0)
             /\ result.changed = "False"

\* ------------------------------------------------------------------ C3
\* C3: whatever way the creation of one stack fails, the failure is absorbed:
\* a run in which create_stack was called never ends with the fatal report,
\* and a finished run has called create_stack for every non-skipped entry.
C3_StackFailureAbsorbed ==
    (StackCalls # {}) =>
        /\ result.kind # "fail_json"
        /\ pc = "done" => Cardinality(StackCalls) + NumSkipped = Len(stacks_param)

\* ------------------------------------------------------------------ C4
\* C4: a run that ends with the failure report made no create_stack call.
C4_NoStackCallInFailedRun ==
    result.kind = "fail_json" => StackCalls = {}

\* ------------------------------------------------------------------ C5
\* C5: in the report of a completed run stacks_deployed is the number of
\* create_stack calls that succeeded, stacks_failed_to_deploy the number that
\* failed, and changed is true iff at least one stack was created; skipped
\* stacks are in neither number and do not set changed.
C5_ReportCounts ==
    result.kind = "exit_json" =>
        /\ result.stacks_deployed = Str(NumCreated)
        /\ result.stacks_failed_to_deploy = Str(NumFailed)
        /\ (result.changed = "True") <=> (NumCreated > 0)
        /\ result.changed \in {"True", "False"}

C5_Witness ==
    /\ result.kind = "exit_json"
    /\ NumSkipped > 0
    /\ NumFailed > 0
    /\ result.changed = "False"

\* ------------------------------------------------------------------ C6
\* C6: at the report, the reported number of created stacks plus the reported
\* number of failed stacks plus the number of skipped stacks is the length of
\* the desired list.
C6_CountConservation ==
    result.kind = "exit_json" =>
        \E a, b \in 0..Len(stacks_param) :
            /\ result.stacks_deployed = Str(a)
            /\ result.stacks_failed_to_deploy = Str(b)
            /\ a + b + NumSkipped = Len(stacks_param)

C6_Witness ==
    /\ result.kind = "exit_json"
    /\ NumSkipped > 0
    /\ NumCreated > 0
    /\ Len(stacks_param) > 1

\* ------------------------------------------------------------------ C7
\* C7: if ping fails, the run makes no further remote call and is over with
\* the failure report, changed = false, and no stack attempted.
PingFailed == \E k \in CallsOf("ping") : ~Ok(calls[k])

C7_PingFailureIsFatal ==
    PingFailed =>
        /\ Len(calls) = 1
        /\ pc = "done"
        /\ result.kind = "fail_json"
        /\ result.changed = "False"
        /\ created_stacks = <<>>

C7_Witness == PingFailed /\ pc = "done" /\ run > 1

\* ------------------------------------------------------------------ C8
\* C8: with initial_setup = true and an admin check answered 204 (already
\* initialised), the run calls neither create_admin nor create_endpoint, its
\* next remote call is create_session, and a warning is issued, no failure.
AdminReportedInitialized ==
    \E k \in CallsOf("check_admin_exists") : calls[k].status = 204

C8_NoBootstrapWhenInitialized ==
    (initial_setup /\ AdminReportedInitialized) =>
        /\ CallsOf("create_admin") = {}
        /\ CallsOf("create_endpoint") = {}
        /\ \A k \in CallsOf("check_admin_exists") :
              IF k = Len(calls)
              THEN pc = "create_session" /\ result.kind = "none"
              ELSE calls[k + 1].op = "create_session"
        /\ \E w \in DOMAIN warnings : warnings[w][1] = "initialized"

C8_Witness ==
    /\ initial_setup
    /\ AdminReportedInitialized
    /\ result.kind = "exit_json"
    /\ NumCreated > 0

\* ------------------------------------------------------------------ C9
\* C9: get_all_stacks and create_stack are called only after an endpoint
\* listing of the same run resolved the endpoint name to the id of an
\* endpoint of exactly that name; when the listing succeeds but holds no
\* endpoint of that name (also right after create_endpoint succeeded), the
\* run is over with the failure report and made no stack call.
StackOps == CallsOf("get_all_stacks") \cup StackCalls

Listed == \E k \in CallsOf("_get_all_endpoints") : Ok(calls[k])

NameListed == \E e \in DOMAIN endpoints : endpoints[e].Name = endpoint_param

C9_EndpointResolvedFirst ==
    /\ \A k \in StackOps :
          /\ \E j \in 1..(k - 1) :
                calls[j].op = "_get_all_endpoints" /\ Ok(calls[j])
          /\ \E e \in DOMAIN endpoints :
                /\ endpoints[e].Name = endpoint_param
                /\ endpoints[e].Id = endpoint_id
    /\ (Listed /\ ~NameListed) =>
          /\ pc = "done"
          /\ result.kind = "fail_json"
          /\ StackOps = {}

C9_Witness ==
    /\ Listed
    /\ ~NameListed
    /\ \E k \in CallsOf("create_endpoint") : Ok(calls[k])

\* ------------------------------------------------------------------ C10
\* C10: create_session is called at most once in a run and exactly once in a
\* run that reaches its report; every authorised call carries the token that
\* call returned and comes after it.
Authorised == CallsOf("create_endpoint") \cup CallsOf("_get_all_endpoints")
                \cup StackOps

C10_OneSessionPerRun ==
    /\ Cardinality(CallsOf("create_session")) <= 1
    /\ result.kind = "exit_json" => Cardinality(CallsOf("create_session")) = 1
    /\ \A k \in Authorised :
          \E j \in 1..(k - 1) :
              /\ calls[j].op = "create_session"
              /\ Ok(calls[j])
              /\ calls[j].jwt # 0
              /\ calls[k].token = calls[j].jwt

C10_Witness ==
    /\ result.kind = "exit_json"
    /\ CallsOf("create_endpoint") # {}
    /\ StackCalls # {}
    /\ run > 1

SessionOk(c) == c.op = "create_session" /\ Ok(c) /\ c.jwt # 0

C13_BootstrapOrder ==
    /\ \A k \in CallsOf("create_admin") :
          /\ initial_setup
          /\ k > 1
          /\ calls[k - 1].op = "check_admin_exists"
          /\ calls[k - 1].status \notin {204, TransportError}
          /\ IF Ok(calls[k])
             THEN IF k = Len(calls)
                  THEN pc = "create_session_setup"
                  ELSE /\ calls[k + 1].op = "create_session"
                       /\ IF SessionOk(calls[k + 1])
                          THEN IF k + 1 = Len(calls)
                               THEN pc = "create_endpoint"
                               ELSE calls[k + 2].op = "create_endpoint"
                          ELSE k + 1 = Len(calls) /\ result.kind = "fail_json"
             ELSE k = Len(calls) /\ result.kind = "fail_json"
    /\ \A k \in CallsOf("create_endpoint") :
          /\ k > 2
          /\ SessionOk(calls[k - 1])
          /\ calls[k - 2].op = "create_admin" /\ Ok(calls[k - 2])
          /\ ~Ok(calls[k]) => (k = Len(calls) /\ result.kind = "fail_json")

C13_Witness ==
    /\ \E k \in CallsOf("create_endpoint") : Ok(calls[k])
    /\ result.kind = "exit_json"

\* ------------------------------------------------------------------ C14
\* C14: with initial_setup = false the run calls neither create_admin nor
\* create_endpoint, whatever the remote answers, and the call after an admin
\* check that returned is create_session.
C14_NoSetupNoBootstrap ==
    ~initial_setup =>
        /\ CallsOf("create_admin") = {}
        /\ CallsOf("create_endpoint") = {}
        /\ \A k \in CallsOf("check_admin_exists") :
              calls[k].status # TransportError =>
                  IF k = Len(calls)
                  THEN pc = "create_session"
                  ELSE calls[k + 1].op = "create_session"

\* initial_setup = false against a remote whose admin is not initialised
C14_Witness ==
    /\ ~initial_setup
    /\ \E k \in CallsOf("check_admin_exists") : calls[k].status = 404
    /\ CallsOf("create_session") # {}

\* ------------------------------------------------------------------ C12
\* C12 as stated: a finished run has handed over either the success report
\* or a failure report with changed = false.
C12_FailureSaysUnchanged ==
    pc = "done" =>
        \/ result.kind = "exit_json"
        \/ result.kind = "fail_json" /\ result.changed = "False"

\* C12 as amended: every run ends, and it ends with exactly one report:
\* the success report, or the failure report with changed = false, or, for
\* an empty stack list, the failure report without a changed value.
C12_Outcome ==
    \/ result.kind = "exit_json"
    \/ result.kind = "fail_json" /\ result.changed = "False"
    \/ result.kind = "fail_json" /\ result.changed = "absent"
          /\ stacks_param = <<>>

C12_RunEndsWithOneReport ==
    /\ [](pc = "done" <=> result.kind # "none")
    /\ [](pc = "done" => C12_Outcome)
    /\ (pc = "start") ~> (pc = "done")

C12_Witness ==
    /\ pc = "done"
    /\ run > 1
    /\ result.kind = "fail_json"
    /\ result.changed = "absent"

\* ------------------------------------------------------------------ C15
\* C15: in a run that reaches its report the names submitted by create_stack,
\* in order of the calls, are the names of the desired entries that are not
\* skipped, in the order of the desired list, each entry once; and every
\* other method is called at most once in a run, also after it failed.
\* An entry is skipped when its lower-cased name is in the stack listing.
NotSkipped(e) == \A j \in DOMAIN existing_stacks : existing_stacks[j] # Lower(e.name)

Submitted(c) == c.op = "create_stack"

OtherMethods == {"ping", "check_admin_exists", "create_admin", "create_session",
                 "create_endpoint", "_get_all_endpoints", "get_all_stacks"}

C15_NoRetryInOrder ==
    /\ \A op \in OtherMethods : Cardinality(CallsOf(op)) <= 1
    /\ result.kind = "exit_json" =>
          LET submitted == SelectSeq(calls, Submitted)
              expected == SelectSeq(stacks_param, NotSkipped)
          IN  /\ Len(submitted) = Len(expected)
              /\ \A k \in DOMAIN submitted : submitted[k].name = expected[k].name

\* a report after a skipped entry, a failed creation and nothing else
C15_Witness ==
    /\ result.kind = "exit_json"
    /\ NumSkipped > 0
    /\ NumFailed > 0
    /\ NumCreated = 0

\* ------------------------------------------------------------------ C16
\* C16: the admin check returns true exactly for a 204 and ends the run only
\* when the request itself raised; with initial_setup = true every other
\* response, error statuses included, is followed by create_admin and a 204
\* never is.
C16_AdminCheckOn204 ==
    \A k \in CallsOf("check_admin_exists") :
        IF calls[k].status = TransportError
        THEN k = Len(calls) /\ result.kind = "fail_json"
        ELSE /\ admin_exists = (calls[k].status = 204)
             /\ k = Len(calls) => result.kind = "none"
             /\ initial_setup =>
                   IF calls[k].status = 204
                   THEN CallsOf("create_admin") = {}
                   ELSE IF k = Len(calls)
                        THEN pc = "create_admin"
                        ELSE calls[k + 1].op = "create_admin"

\* an error status on the admin check led into the bootstrap branch
C16_Witness ==
    /\ initial_setup
    /\ \E k \in CallsOf("check_admin_exists") : calls[k].status = 500
    /\ CallsOf("create_admin") # {}

EveryCallSucceeded ==
    /\ calls # <<>>
    /\ \A k \in DOMAIN calls :
          /\ Ok(calls[k])
          /\ calls[k].op = "create_session" => calls[k].jwt # 0

C18_BootstrapRecovers ==
    (halfSetup /\ initial_setup /\ pc = "done" /\ EveryCallSucceeded) =>
        /\ result.kind = "exit_json"
        /\ NameListed

\* ------------------------------------------------------------------ C19
\* C19: a run started in check mode makes no create_admin, create_endpoint
\* or create_stack call that succeeds.
C19_CheckModeChangesNothing ==
    check_mode =>
        \A k \in DOMAIN calls :
            calls[k].op \in {"create_admin", "create_endpoint", "create_stack"}
                => ~Ok(calls[k])

\* ------------------------------------------------------------------ C20
\* C20: within one run no two create_stack calls submit names that are equal
\* ignoring case.
C20_OneSubmissionPerName ==
    \A j, k \in StackCalls :
        j < k => ~SameIgnoringCase(calls[j].name, calls[k].name)

====
